---- MODULE Spec2Model ----
\* HyperMemo cloud functions (functions/main.py): the bookmarks, summaries,
\* summary_tags and rag_query HTTP handlers over a per-user Firestore
\* collection, with the embedding and generation providers and the document
\* store as external collaborators whose outcomes are nondeterministic.
\* export_note writes to the notes collection only and is left out.
\*
\* Strings are sequences of one-character strings; the empty sequence stands
\* for both '' and [].  Embedding vectors are sequences of integers whose
\* Euclidean norm is an integer, so that cosine similarity is an exact
\* multiple of 1/ScoreScale.
EXTENDS Integers, Sequences, FiniteSets, TLC

VARIABLES store, now, nextAuto, req, resp, calls

vars == <<store, now, nextAuto, req, resp, calls>>

-----------------------------------------------------------------------------
\* Bounds of the model.

\* Writes to the store (server timestamps issued) in the full specification.
MaxWrites == 2
\* Documents saved in the ranking specification (one more than the cut to 5).
MaxRankDocs == 6
\* Comma-separated pieces of a generation response in the tag specification.
MaxPieces == 6
\* Length of the texts handed to embed_text in the embedder specification.
MaxTextLen == 4

-----------------------------------------------------------------------------
\* Python string and list primitives.

Whitespace == {" ", "\n"}

UpperChars == <<"A", "C", "F", "G">>
LowerChars == <<"a", "c", "f", "g">>

Range(s) == {s[i] : i \in 1..Len(s)}

\* s[:n]
Take(s, n) == SubSeq(s, 1, IF Len(s) < n THEN Len(s) ELSE n)

\* s[n:]
Drop(s, n) == SubSeq(s, n + 1, Len(s))

\* str.lstrip()
RECURSIVE LStrip(_)
LStrip(s) ==
  IF s # <<>> /\ Head(s) \in Whitespace THEN LStrip(Tail(s)) ELSE s

\* str.rstrip()
RECURSIVE RStrip(_)
RStrip(s) ==
  IF s # <<>> /\ s[Len(s)] \in Whitespace THEN RStrip(SubSeq(s, 1, Len(s) - 1)) ELSE s

\* str.strip()
Strip(s) == RStrip(LStrip(s))

LowerChar(c) ==
  IF \E i \in 1..Len(UpperChars) : UpperChars[i] = c
  THEN LowerChars[CHOOSE i \in 1..Len(UpperChars) : UpperChars[i] = c]
  ELSE c

\* str.lower()
Lower(s) == [i \in 1..Len(s) |-> LowerChar(s[i])]

\* str.split(','): the pieces between the commas, empty pieces included.
RECURSIVE Split(_)
Split(s) ==
  IF \A i \in 1..Len(s) : s[i] # ","
  THEN <<s>>
  ELSE LET p == CHOOSE i \in 1..Len(s) : s[i] = "," /\ \A j \in 1..(i - 1) : s[j] # ","
       IN  <<SubSeq(s, 1, p - 1)>> \o Split(Drop(s, p))

\* '\n'.join(filter(bool, parts))
RECURSIVE JoinNonEmpty(_)
JoinNonEmpty(parts) ==
  IF parts = <<>> THEN <<>>
  ELSE LET rest == JoinNonEmpty(Tail(parts))
       IN  IF Head(parts) = <<>> THEN rest
           ELSE IF rest = <<>> THEN Head(parts)
           ELSE Head(parts) \o <<"\n">> \o rest

\* dict.get(key, default)
Get(d, k, default) == IF k \in DOMAIN d THEN d[k] ELSE default

-----------------------------------------------------------------------------
\* External collaborators: what one call can come back with.

\* GEN_MODEL.generate_content: raises, or a response whose text may be missing.
GenRaise == [kind |-> "raise"]
GenText(t) == [kind |-> "ok", text |-> t]

\* EMBED_MODEL.get_embeddings: raises, or a list of embeddings (possibly empty).
EmbRaise == [kind |-> "raise"]
EmbList(l) == [kind |-> "ok", embeddings |-> l]

\* One entry of the log of collaborator calls made while serving a request.
Call(svc, out) == [svc |-> svc, out |-> out]

\* The value or the exception a helper ends with, and the calls it made.
Returned(v, cs) == [raised |-> FALSE, value |-> v, error |-> "", calls |-> cs]
Raised(e, cs) == [raised |-> TRUE, value |-> <<>>, error |-> e, calls |-> cs]

-----------------------------------------------------------------------------
\* The helpers of main.py.

\* The cap of suggest_tags: [...][:5]
TagCap == 5

\* The cap of rag_query: matches[:5]
TopK == 5

\* The shortest question rag_query accepts.
MinQuestionLen == 3

\* The list comprehension of suggest_tags, before the cap.
RECURSIVE StripLowerNonEmpty(_)
StripLowerNonEmpty(pieces) ==
  IF pieces = <<>> THEN <<>>
  ELSE IF Strip(Head(pieces)) # <<>>
       THEN <<Lower(Strip(Head(pieces)))>> \o StripLowerNonEmpty(Tail(pieces))
       ELSE StripLowerNonEmpty(Tail(pieces))

\* The parse with the cap taken before the empty pieces are dropped.
ParseTagsCapFirst(text) == StripLowerNonEmpty(Take(Split(text), TagCap))

\* [tag.strip().lower() for tag in text.split(',') if tag.strip()][:5]
ParseTags(text) == Take(StripLowerNonEmpty(Split(text)), TagCap)

\* summarize_text with a provider failure swallowed into ''.
SummarizeTextSwallow(out) == Returned(Get(out, "text", <<>>), <<Call("generate", out)>>)

\* summarize_text: one generation call; a missing text is ''.
SummarizeText(out) ==
  IF out.kind = "raise"
  THEN Raised("generation failed", <<Call("generate", out)>>)
  ELSE Returned(out.text, <<Call("generate", out)>>)

\* suggest_tags: one generation call, then the parse.
SuggestTags(out) ==
  IF out.kind = "raise"
  THEN Raised("generation failed", <<Call("generate", out)>>)
  ELSE Returned(ParseTags(out.text), <<Call("generate", out)>>)

\* embed_text with a provider failure swallowed into [].
EmbedTextSwallow(text, out) ==
  IF Strip(text) = <<>> THEN Returned(<<>>, <<>>)
  ELSE Returned(IF Get(out, "embeddings", <<>>) # <<>> THEN out.embeddings[1] ELSE <<>>,
                <<Call("embed", out)>>)

\* embed_text that short-circuits on '' only, not on whitespace.
EmbedTextNoStrip(text, out) ==
  IF text = <<>> THEN Returned(<<>>, <<>>)
  ELSE IF out.kind = "raise"
       THEN Raised("embedding failed", <<Call("embed", out)>>)
       ELSE Returned(IF out.embeddings # <<>> THEN out.embeddings[1] ELSE <<>>,
                     <<Call("embed", out)>>)

\* embed_text: no call for blank text; else one call, [] when nothing comes back.
EmbedText(text, out) ==
  IF Strip(text) = <<>> THEN Returned(<<>>, <<>>)
  ELSE IF out.kind = "raise"
       THEN Raised("embedding failed", <<Call("embed", out)>>)
       ELSE Returned(IF out.embeddings # <<>> THEN out.embeddings[1] ELSE <<>>,
                     <<Call("embed", out)>>)

-----------------------------------------------------------------------------
\* Cosine similarity and ranking.

\* Scores are kept as integers: the cosine times ScoreScale.  Every vector of
\* the model has Euclidean norm 0, 1 or 5, so the product of two norms divides
\* ScoreScale times the dot product exactly.
ScoreScale == 5 * 5

Min(a, b) == IF a < b THEN a ELSE b

\* sum(x * y for x, y in zip(a, b)): zip stops at the shorter vector.
RECURSIVE DotUpTo(_, _, _)
DotUpTo(a, b, n) == IF n = 0 THEN 0 ELSE DotUpTo(a, b, n - 1) + a[n] * b[n]

Dot(a, b) == DotUpTo(a, b, Min(Len(a), Len(b)))

\* math.sqrt on the perfect squares the model's vectors give.
Sqrt(n) == CHOOSE r \in 0..n : r * r = n

Norm(a) == Sqrt(Dot(a, a))

\* cosine_similarity, in units of 1/ScoreScale.
CosineSimilarity(a, b) ==
  IF a = <<>> \/ b = <<>> THEN 0
  ELSE IF Norm(a) = 0 \/ Norm(b) = 0 THEN 0
  ELSE (Dot(a, b) * ScoreScale) \div (Norm(a) * Norm(b))

\* {'id': doc.id, **doc.to_dict()}
WithId(id, doc) ==
  [f \in DOMAIN doc \cup {"id"} |-> IF f \in DOMAIN doc THEN doc[f] ELSE id]

\* One pass of the loop of rag_query: the match of a streamed document.
Match(queryVector, id, doc) ==
  [bookmark |-> WithId(id, doc),
   score |-> CosineSimilarity(queryVector, Get(doc, "embedding", <<>>))]

\* The insertion of a sort that forgot reverse=True.
InsertAsc(sorted, m) ==
  LET ahead == Cardinality({i \in 1..Len(sorted) : sorted[i].score <= m.score})
  IN  SubSeq(sorted, 1, ahead) \o <<m>> \o SubSeq(sorted, ahead + 1, Len(sorted))

\* list.sort(key=score, reverse=True) is stable: an element goes after every
\* element already placed whose score is at least its own.
InsertDesc(sorted, m) ==
  LET ahead == Cardinality({i \in 1..Len(sorted) : sorted[i].score >= m.score})
  IN  SubSeq(sorted, 1, ahead) \o <<m>> \o SubSeq(sorted, ahead + 1, Len(sorted))

RECURSIVE SortDesc(_)
SortDesc(ms) ==
  IF ms = <<>> THEN <<>>
  ELSE InsertDesc(SortDesc(SubSeq(ms, 1, Len(ms) - 1)), ms[Len(ms)])

\* The loop over the stream, matches.sort(...) and matches = matches[:5];
\* scored holds the match of every document of the stream.
TopMatches(scored, order) ==
  Take(SortDesc([i \in 1..Len(order) |-> scored[order[i]]]), TopK)

-----------------------------------------------------------------------------
\* The document store: users/{uid}/bookmarks/{id}.

\* One bookmarks collection for everybody.
CollectionShared(st, uid) == st["u1"]

\* DB.collection('users').document(uid).collection('bookmarks')
Collection(st, uid) == st[uid]

\* The ids coll.document() has handed out so far are a1, a2, ...
AutoId(n) == "a" \o ToString(n)

\* doc_ref.set(record, merge=True): the record's fields replace the stored
\* ones, the stored fields the record lacks stay.
Merge(old, record) ==
  [f \in DOMAIN old \cup DOMAIN record |->
     IF f \in DOMAIN record THEN record[f] ELSE old[f]]

SetMerge(coll, id, record) ==
  IF id \in DOMAIN coll
  THEN [coll EXCEPT ![id] = Merge(coll[id], record)]
  ELSE [i \in DOMAIN coll \cup {id} |-> IF i = id THEN record ELSE coll[i]]

\* Every order a stream over the given documents may come in.
RECURSIVE Orders(_)
Orders(ids) ==
  IF ids = {} THEN {<<>>}
  ELSE UNION {{<<x>> \o rest : rest \in Orders(ids \ {x})} : x \in ids}

\* .where('embedding', '!=', None): the documents that have the field; the
\* handlers never store a null.
WhereEmbedding(coll) == {id \in DOMAIN coll : "embedding" \in DOMAIN coll[id]}

\* .limit(100)
ListLimit == 100

\* .order_by('createdAt', direction=DESCENDING): only documents that have the
\* field, newest first.
RECURSIVE ByCreatedDesc(_, _)
ByCreatedDesc(coll, ids) ==
  IF ids = {} THEN <<>>
  ELSE LET top == CHOOSE i \in ids : \A j \in ids : coll[j].createdAt <= coll[i].createdAt
       IN  <<top>> \o ByCreatedDesc(coll, ids \ {top})

ListQuery(coll) ==
  Take(ByCreatedDesc(coll, {id \in DOMAIN coll : "createdAt" \in DOMAIN coll[id]}),
       ListLimit)

-----------------------------------------------------------------------------
\* Responses.

\* cors_response('', 204)
CorsPreflight == [status |-> 204, kind |-> "empty"]

\* cors_response({'error': str(err)}, 500)
ErrorResponse(msg) == [status |-> 500, kind |-> "error", error |-> msg]

\* cors_response(body): status 200.
Ok(kind, body) == [status |-> 200, kind |-> kind, body |-> body]

\* verify_user: the Authorization header is missing, carries a token that does
\* not verify, or carries the token of a user.
VerifyUser(authz) ==
  IF authz = "missing" THEN Raised("Missing Authorization header", <<>>)
  ELSE IF authz = "invalid" THEN Raised("invalid token", <<>>)
  ELSE Returned(authz, <<>>)

-----------------------------------------------------------------------------
\* The handlers.  P is the input profile of a specification: the requests it
\* sends and the outcomes its collaborators may have.

\* A collaborator that a request did not get to call.
Skipped == [kind |-> "skipped"]

StoreOk == [kind |-> "ok"]
StoreRaise == [kind |-> "raise"]

StoreOuts(P) == IF P.storeFails THEN {StoreOk, StoreRaise} ELSE {StoreOk}

\* The end of a request: the response, the calls made, and the store after it.
Finish(r, cs, st, t, n) ==
  /\ resp' = r
  /\ calls' = cs
  /\ store' = st
  /\ now' = t
  /\ nextAuto' = n

Reply(r, cs) == Finish(r, cs, store, now, nextAuto)

\* No request served yet.
NoRequest == [op |-> "", method |-> "", auth |-> "", data |-> <<>>]

\* A request that does not write leaves store, now and nextAuto as they were,
\* so everything a later request can see or do is already there in the state
\* the request started from.  Every request is therefore taken from the initial
\* state or from a state left by a write; the reachable states are the same.
Wrote == \E i \in 1..Len(calls) : calls[i].svc = "set" /\ calls[i].out.kind = "ok"

Fresh == req = NoRequest \/ Wrote

\* bookmarks, GET: the caller's documents, newest first.
ListBookmarks(P, uid) ==
  \E sOut \in StoreOuts(P) :
    IF sOut.kind = "raise"
    THEN Reply(ErrorResponse("store read failed"), <<Call("stream", sOut)>>)
    ELSE LET coll == Collection(store, uid)
             order == ListQuery(coll)
         IN  Reply(Ok("list", [i \in 1..Len(order) |-> WithId(order[i], coll[order[i]])]),
                   <<Call("stream", sOut)>>)

\* The record that bookmarks writes; createdAt only when the request had no id.
SaveRecord(bookmark_id, title, url, tags, summary, note, raw_content, embedding, stamp) ==
  LET record == [title |-> title, url |-> url, tags |-> tags, summary |-> summary,
                 note |-> note, rawContent |-> raw_content, embedding |-> embedding,
                 updatedAt |-> stamp]
  IN  IF bookmark_id = "" THEN Merge(record, [createdAt |-> stamp]) ELSE record

\* bookmarks, any other method: validate, fill in summary and tags, embed, write.
SaveBookmark(P, uid, data) ==
  LET bookmark_id == Get(data, "id", "")
      title       == Strip(Get(data, "title", <<>>))
      url         == Strip(Get(data, "url", <<>>))
      tags0       == Get(data, "tags", <<>>)
      note        == Get(data, "note", <<>>)
      summary0    == Get(data, "summary", <<>>)
      raw_content == Get(data, "rawContent", <<>>)
  IN
  IF title = <<>> \/ url = <<>>
  THEN Reply(ErrorResponse("title and url are required"), <<>>)
  ELSE
  \E sumOut \in (IF summary0 = <<>> /\ raw_content # <<>> THEN P.genOuts ELSE {Skipped}) :
    LET s == IF sumOut.kind = "skipped" THEN Returned(summary0, <<>>)
             ELSE SummarizeText(sumOut)
    IN
    IF s.raised THEN Reply(ErrorResponse(s.error), s.calls)
    ELSE
    \E tagOut \in (IF tags0 = <<>> /\ raw_content # <<>> THEN P.genOuts ELSE {Skipped}) :
      LET t == IF tagOut.kind = "skipped" THEN Returned(tags0, <<>>)
               ELSE SuggestTags(tagOut)
      IN
      IF t.raised THEN Reply(ErrorResponse(t.error), s.calls \o t.calls)
      ELSE
      \E embOut \in P.embOuts :
        LET e == EmbedText(JoinNonEmpty(<<title, s.value, note, raw_content>>), embOut)
            made == s.calls \o t.calls \o e.calls
        IN
        IF e.raised THEN Reply(ErrorResponse(e.error), made)
        ELSE
        \E setOut \in StoreOuts(P), getOut \in StoreOuts(P) :
          LET id     == IF bookmark_id # "" THEN bookmark_id ELSE AutoId(nextAuto)
              issued == IF bookmark_id # "" THEN nextAuto ELSE nextAuto + 1
              record == SaveRecord(bookmark_id, title, url, t.value, s.value, note,
                                   raw_content, e.value, now + 1)
              coll   == SetMerge(Collection(store, uid), id, record)
              after  == [store EXCEPT ![uid] = coll]
          IN
          IF setOut.kind = "raise"
          THEN /\ getOut = StoreOk
               /\ Reply(ErrorResponse("store write failed"), made \o <<Call("set", setOut)>>)
          ELSE /\ now < P.maxWrites
               /\ IF getOut.kind = "raise"
                  THEN Finish(ErrorResponse("store read failed"),
                              made \o <<Call("set", setOut), Call("get", getOut)>>,
                              after, now + 1, issued)
                  ELSE Finish(Ok("item", Merge(coll[id], [id |-> id])),
                              made \o <<Call("set", setOut), Call("get", getOut)>>,
                              after, now + 1, issued)

\* The bodies a profile posts to bookmarks for a user: each of its bodies
\* without an id, with one of its client-chosen ids, or with the id of one of
\* the user's documents.
SaveBodies(P, uid) ==
  LET ids == P.clientIds \cup (IF P.reuseIds THEN DOMAIN Collection(store, uid) ELSE {})
  IN  P.bodies \cup {Merge(b, [id |-> i]) : b \in P.bodies, i \in ids}

\* bookmarks
Bookmarks(P) ==
  /\ Fresh
  /\ \E method \in P.methods :
       IF method = "OPTIONS"
       THEN /\ req' = [op |-> "bookmarks", method |-> method, auth |-> "missing", data |-> <<>>]
            /\ Reply(CorsPreflight, <<>>)
       ELSE
       \E authz \in P.auths :
         LET user == VerifyUser(authz) IN
         IF method = "GET"
         THEN /\ req' = [op |-> "bookmarks", method |-> method, auth |-> authz, data |-> <<>>]
              /\ IF user.raised THEN Reply(ErrorResponse(user.error), <<>>)
                 ELSE ListBookmarks(P, user.value)
         ELSE \E data \in (IF user.raised THEN P.bodies ELSE SaveBodies(P, user.value)) :
                /\ req' = [op |-> "bookmarks", method |-> method, auth |-> authz, data |-> data]
                /\ IF user.raised THEN Reply(ErrorResponse(user.error), <<>>)
                   ELSE SaveBookmark(P, user.value, data)

\* The check of the question's length with the bound off by one.
QuestionTooShortOffByOne(question) == Len(question) < MinQuestionLen - 1

\* if len(question) < 3
QuestionTooShort(question) == Len(question) < MinQuestionLen

\* The body of rag_query after the CORS check and verify_user.
AskQuestion(P, uid, data) ==
  LET question == Strip(Get(data, "question", <<>>)) IN
  IF QuestionTooShort(question)
  THEN Reply(ErrorResponse("Question is too short"), <<>>)
  ELSE
  \E embOut \in P.queryOuts :
    LET q == EmbedText(question, embOut) IN
    IF q.raised THEN Reply(ErrorResponse(q.error), q.calls)
    ELSE
    \E sOut \in StoreOuts(P) :
      IF sOut.kind = "raise"
      THEN Reply(ErrorResponse("store read failed"), q.calls \o <<Call("stream", sOut)>>)
      ELSE
      \E scored \in {[id \in WhereEmbedding(Collection(store, uid)) |->
                        Match(q.value, id, Collection(store, uid)[id])]} :
      \E order \in Orders(DOMAIN scored), genOut \in P.genOuts :
        LET made == q.calls \o <<Call("stream", sOut), Call("generate", genOut)>> IN
        IF genOut.kind = "raise"
        THEN Reply(ErrorResponse("generation failed"), made)
        ELSE Reply(Ok("answer", [answer |-> genOut.text,
                                 matches |-> TopMatches(scored, order)]), made)

\* rag_query
RagQuery(P) ==
  /\ Fresh
  /\ \E method \in P.methods \ {"GET"} :
       IF method = "OPTIONS"
       THEN /\ req' = [op |-> "rag_query", method |-> method, auth |-> "missing", data |-> <<>>]
            /\ Reply(CorsPreflight, <<>>)
       ELSE
       \E authz \in P.auths, data \in P.askBodies :
         LET user == VerifyUser(authz) IN
         /\ req' = [op |-> "rag_query", method |-> method, auth |-> authz, data |-> data]
         /\ IF user.raised THEN Reply(ErrorResponse(user.error), <<>>)
            ELSE AskQuestion(P, user.value, data)

\* summaries
Summaries(P) ==
  /\ Fresh
  /\ \E method \in P.methods \ {"GET"} :
    IF method = "OPTIONS"
    THEN /\ req' = [op |-> "summaries", method |-> method, auth |-> "missing", data |-> <<>>]
         /\ Reply(CorsPreflight, <<>>)
    ELSE
    \E authz \in P.auths :
      LET user == VerifyUser(authz) IN
      /\ req' = [op |-> "summaries", method |-> method, auth |-> authz, data |-> <<>>]
      /\ IF user.raised THEN Reply(ErrorResponse(user.error), <<>>)
         ELSE \E genOut \in P.genOuts :
                LET s == SummarizeText(genOut) IN
                IF s.raised THEN Reply(ErrorResponse(s.error), s.calls)
                ELSE Reply(Ok("summary", [summary |-> s.value]), s.calls)

\* summary_tags
SummaryTags(P) ==
  /\ Fresh
  /\ \E method \in P.methods \ {"GET"} :
    IF method = "OPTIONS"
    THEN /\ req' = [op |-> "summary_tags", method |-> method, auth |-> "missing", data |-> <<>>]
         /\ Reply(CorsPreflight, <<>>)
    ELSE
    \E authz \in P.auths :
      LET user == VerifyUser(authz) IN
      /\ req' = [op |-> "summary_tags", method |-> method, auth |-> authz, data |-> <<>>]
      /\ IF user.raised THEN Reply(ErrorResponse(user.error), <<>>)
         ELSE \E genOut \in P.genOuts :
                LET t == SuggestTags(genOut) IN
                IF t.raised THEN Reply(ErrorResponse(t.error), t.calls)
                ELSE Reply(Ok("tags", [tags |-> t.value]), t.calls)

\* embed_text, applied on its own to a text and a provider outcome.
EmbedTextCall(texts, outs) ==
  /\ Fresh
  /\ \E text \in texts, out \in outs :
    LET e == EmbedText(text, out) IN
    /\ req' = [op |-> "embed_text", method |-> "", auth |-> "", data |-> [text |-> text]]
    /\ Reply(IF e.raised THEN ErrorResponse(e.error) ELSE Ok("vector", e.value), e.calls)

-----------------------------------------------------------------------------
\* After construction: an empty store, no request served yet.

Users == {"u1", "u2"}

Init ==
  /\ store = [u \in Users |-> <<>>]
  /\ now = 0
  /\ nextAuto = 1
  /\ req = NoRequest
  /\ resp = [status |-> 0, kind |-> "none"]
  /\ calls = <<>>

-----------------------------------------------------------------------------
\* The full specification: one user and callers that fail to authenticate,
\* every handler stage, every failure of every collaborator.

GenOuts == {GenRaise, GenText(<<"G">>)}

Bodies ==
  { [title |-> <<" ", "t">>],
    [title |-> <<" ", "t">>, url |-> <<"u">>],
    [title |-> <<" ", "t">>, url |-> <<"u">>, note |-> <<"n">>],
    [title |-> <<" ", "t">>, url |-> <<"u">>, rawContent |-> <<"r">>] }

AskBodies ==
  { <<>>, [question |-> <<"a", "b">>], [question |-> <<" ", "a", "b", " ">>],
    [question |-> <<"a", "b", "c">>] }

Full ==
  [ auths      |-> {"missing", "invalid", "u1"},
    methods    |-> {"OPTIONS", "GET", "POST"},
    bodies     |-> Bodies,
    clientIds  |-> {"d1"},
    reuseIds   |-> TRUE,
    askBodies  |-> AskBodies,
    genOuts    |-> GenOuts,
    embOuts    |-> {EmbRaise, EmbList(<<>>), EmbList(<< <<1, 0>> >>)},
    queryOuts  |-> {EmbRaise, EmbList(<<>>), EmbList(<< <<1, 0>> >>)},
    storeFails |-> TRUE,
    maxWrites  |-> MaxWrites ]

Next == Bookmarks(Full) \/ RagQuery(Full)

Spec == Init /\ [][Next]_vars

-----------------------------------------------------------------------------
\* The isolation specification: two users who may pick the same document id,
\* collaborators that do not fail.

Iso ==
  [ auths      |-> Users,
    methods    |-> {"GET", "POST"},
    bodies     |-> Bodies,
    clientIds  |-> {"d1"},
    reuseIds   |-> TRUE,
    askBodies  |-> {[question |-> <<"a", "b", "c">>]},
    genOuts    |-> {GenText(<<"G">>)},
    embOuts    |-> {EmbList(<< <<1, 0>> >>), EmbList(<< <<0, 1>> >>)},
    queryOuts  |-> {EmbList(<< <<1, 0>> >>)},
    storeFails |-> FALSE,
    maxWrites  |-> MaxWrites ]

NextIso == Bookmarks(Iso) \/ RagQuery(Iso)

SpecIso == Init /\ [][NextIso]_vars

-----------------------------------------------------------------------------
\* The ranking specification: one user saves up to MaxRankDocs documents, whose
\* embeddings repeat, and asks; the store streams them in any order.

Rank ==
  [ auths      |-> {"u1"},
    methods    |-> {"POST"},
    bodies     |-> {[title |-> <<"t">>, url |-> <<"u">>]},
    clientIds  |-> {},
    reuseIds   |-> FALSE,
    askBodies  |-> {[question |-> <<"a", "b", "c">>]},
    genOuts    |-> {GenText(<<"G">>)},
    embOuts    |-> {EmbList(<< <<3, 4>> >>), EmbList(<< <<-1, 0>> >>)},
    queryOuts  |-> {EmbList(<< <<1, 0>> >>), EmbList(<< <<4, 3>> >>)},
    storeFails |-> FALSE,
    maxWrites  |-> MaxRankDocs ]

NextRank == Bookmarks(Rank) \/ RagQuery(Rank)

SpecRank == Init /\ [][NextRank]_vars

-----------------------------------------------------------------------------
\* The generation specification: summaries and summary_tags over responses
\* made of up to MaxPieces comma-separated pieces.

Pieces == {<<>>, <<" ">>, <<" ", "A">>, <<"a", " ">>, <<"G">>}

RECURSIVE JoinComma(_)
JoinComma(ps) ==
  IF ps = <<>> THEN <<>>
  ELSE IF Len(ps) = 1 THEN ps[1]
  ELSE ps[1] \o <<",">> \o JoinComma(Tail(ps))

\* "Cooking, travel ,  AI,ai,Food", with one letter for each word.
ExampleResponse ==
  <<"C", ",", " ", "t", " ", ",", " ", " ", "A", ",", "a", ",", "F">>

TagResponses ==
  {JoinComma(ps) : ps \in UNION {[1..n -> Pieces] : n \in 0..MaxPieces}}
    \cup {ExampleResponse}

Gen ==
  [ auths   |-> {"missing", "u1"},
    methods |-> {"OPTIONS", "POST"},
    genOuts |-> {GenRaise} \cup {GenText(t) : t \in TagResponses} ]

NextGen == Summaries(Gen) \/ SummaryTags(Gen)

SpecGen == Init /\ [][NextGen]_vars

-----------------------------------------------------------------------------
\* The embedder specification: embed_text on every text of up to MaxTextLen
\* characters, blank ones included.

TextChars == {" ", "\n", "a"}

Texts == UNION {[1..n -> TextChars] : n \in 0..MaxTextLen}

NextEmbed ==
  EmbedTextCall(Texts, {EmbRaise, EmbList(<<>>), EmbList(<< <<1, 0>> >>)})

SpecEmbed == Init /\ [][NextEmbed]_vars

-----------------------------------------------------------------------------
\* What the last request was and how it went.

IsSave == req.op = "bookmarks" /\ req.method = "POST"
IsList == req.op = "bookmarks" /\ req.method = "GET"
IsAsk  == req.op = "rag_query" /\ req.method = "POST"

Authenticated == req.auth \in Users

CallsTo(svc) == {i \in 1..Len(calls) : calls[i].svc = svc}

\* The fields of an item a save request may leave out.
OptionalFields == {"tags", "summary", "note", "rawContent", "createdAt"}

-----------------------------------------------------------------------------
\* C1: a save that names a stored document and leaves optional fields out
\* keeps the stored value of each of tags, summary, note, rawContent and
\* createdAt that the request left out.  A summary and tags that the server
\* computes from the rawContent of the request are written by design and are
\* not counted as left out.
LeftOut(data) ==
  (OptionalFields \ DOMAIN data)
    \ (IF "rawContent" \in DOMAIN data THEN {"summary", "tags"} ELSE {})

SaveKeepsAbsentFields ==
  [][ (IsSave' /\ resp'.kind = "item" /\ "id" \in DOMAIN req'.data
         /\ req'.data.id \in DOMAIN store[req'.auth])
      => \A f \in LeftOut(req'.data) \cap DOMAIN store[req'.auth][req'.data.id] :
           /\ f \in DOMAIN store'[req'.auth][req'.data.id]
           /\ store'[req'.auth][req'.data.id][f] = store[req'.auth][req'.data.id][f] ]_vars

-----------------------------------------------------------------------------
\* C2: an Ask whose question has fewer than 3 characters ends in an error
\* with no answer and no matches, without a call to the embedding provider,
\* the store or the generation provider; for an authenticated caller the
\* error is the validation error.
ShortQuestion == IsAsk /\ Len(Get(req.data, "question", <<>>)) < 3

ShortQuestionRejected ==
  ShortQuestion =>
    /\ calls = <<>>
    /\ resp.kind = "error"
    /\ Authenticated => resp.error = "Question is too short"

\* An authenticated caller asked a two-character question and was refused.
ShortQuestionSeen ==
  /\ ShortQuestion
  /\ Authenticated
  /\ req.data = [question |-> <<"a", "b">>]
  /\ resp.kind = "error"

-----------------------------------------------------------------------------
\* The answer of the last Ask, and the corpus it was ranked from.

Answered == IsAsk /\ resp.kind = "answer"

Matches == resp.body.matches

MatchIds == {Matches[i].bookmark.id : i \in 1..Len(Matches)}

Corpus == store[req.auth]

\* The vector embed_text gave the Ask (its call is the first of the request).
AskVector ==
  IF calls[1].out.embeddings = <<>> THEN <<>> ELSE calls[1].out.embeddings[1]

ScoreOf(id) == CosineSimilarity(AskVector, Corpus[id].embedding)

UniqueBest(id) == \A o \in DOMAIN Corpus \ {id} : ScoreOf(o) < ScoreOf(id)

-----------------------------------------------------------------------------
\* C3: the matches of an Ask are at most 5, in descending order of score, no
\* item left out scores higher than a returned one, and an item that alone has
\* the highest score is first.
RankingSound ==
  Answered =>
    /\ Len(Matches) <= 5
    /\ MatchIds \subseteq DOMAIN Corpus
    /\ \A i \in 1..Len(Matches) : Matches[i].score = ScoreOf(Matches[i].bookmark.id)
    /\ \A i, j \in 1..Len(Matches) : i < j => Matches[i].score >= Matches[j].score
    /\ \A id \in DOMAIN Corpus \ MatchIds :
         \A i \in 1..Len(Matches) : ScoreOf(id) <= Matches[i].score
    /\ \A id \in DOMAIN Corpus : UniqueBest(id) => Matches[1].bookmark.id = id

\* Six documents, one of them alone at the top, ties behind it, one cut off.
RankingCutSeen ==
  /\ Answered
  /\ Cardinality(DOMAIN Corpus) = 6
  /\ Len(Matches) = 5
  /\ \E id \in DOMAIN Corpus : UniqueBest(id)
  /\ Matches[1].score > Matches[2].score
  /\ Matches[2].score = Matches[5].score

-----------------------------------------------------------------------------
\* C4, as claimed: whenever the embedding provider call fails or returns no
\* result, the operation ends in an error and no later stage runs.
EmbedFailureAborts ==
  \A i \in CallsTo("embed") :
    (calls[i].out.kind = "raise" \/ calls[i].out.embeddings = <<>>)
      => resp.kind = "error" /\ i = Len(calls)

\* C4, amended: a provider call that raises ends the operation in the
\* provider's error at once (no scoring, no generation call, no store write);
\* a provider call that returns no result does not: the operation goes on to
\* its next stage with the empty vector.
EmbedRaiseAborts ==
  \A i \in CallsTo("embed") :
    /\ calls[i].out.kind = "raise"
         => resp.kind = "error" /\ resp.error = "embedding failed" /\ i = Len(calls)
    /\ (calls[i].out.kind = "ok" /\ calls[i].out.embeddings = <<>>)
         => /\ i < Len(calls)
            /\ calls[i + 1].svc = (IF IsSave THEN "set" ELSE "stream")
            /\ (IsSave /\ resp.kind = "item") => resp.body.embedding = <<>>
            /\ Answered => \A j \in 1..Len(Matches) : Matches[j].score = 0

\* A save whose embedding call raised.
EmbedRaiseSeen ==
  /\ IsSave
  /\ Authenticated
  /\ \E i \in CallsTo("embed") : calls[i].out.kind = "raise"
  /\ resp.kind = "error"

-----------------------------------------------------------------------------
\* C5: no item whose stored embedding is empty appears in the matches of an Ask.
EmptyEmbeddingNeverMatched ==
  Answered => \A i \in 1..Len(Matches) : Matches[i].bookmark.embedding # <<>>

-----------------------------------------------------------------------------
\* C6: the matches of an Ask are the same for every order in which the store
\* can stream the corpus.
StreamOrderIrrelevant ==
  Answered =>
    \A order \in Orders(WhereEmbedding(Corpus)) :
      TopMatches([id \in WhereEmbedding(Corpus) |-> Match(AskVector, id, Corpus[id])],
                 order) = Matches

-----------------------------------------------------------------------------
\* C7: embed_text on a blank text returns the empty vector and calls nobody;
\* on any other text it calls the embedding provider exactly once.
Blank(text) == \A i \in 1..Len(text) : text[i] \in Whitespace

EmbedShortCircuit ==
  req.op = "embed_text" =>
    IF Blank(req.data.text)
    THEN calls = <<>> /\ resp = Ok("vector", <<>>)
    ELSE Len(calls) = 1 /\ calls[1].svc = "embed"

\* A text of whitespace only was embedded.
BlankTextSeen ==
  /\ req.op = "embed_text"
  /\ req.data.text # <<>>
  /\ Blank(req.data.text)
  /\ resp.kind = "vector"

-----------------------------------------------------------------------------
\* The tags a response stands for, read off the response itself: its pieces
\* are what lies between one comma and the next, a piece's core is what lies
\* between its first and its last character that is not whitespace.

Commas(t) == {i \in 1..Len(t) : t[i] = ","}

\* The place of the n-th comma; 0 before the first, Len(t) + 1 after the last.
NthComma(t, n) ==
  IF n = 0 THEN 0
  ELSE IF n > Cardinality(Commas(t)) THEN Len(t) + 1
  ELSE CHOOSE i \in Commas(t) : Cardinality({j \in Commas(t) : j <= i}) = n

Piece(t, k) == SubSeq(t, NthComma(t, k - 1) + 1, NthComma(t, k) - 1)

Core(piece) ==
  LET ink == {i \in 1..Len(piece) : piece[i] \notin Whitespace}
  IN  IF ink = {} THEN <<>>
      ELSE SubSeq(piece, CHOOSE i \in ink : \A j \in ink : i <= j,
                         CHOOSE i \in ink : \A j \in ink : j <= i)

\* The cores of the pieces of a response, in the response's order.
Cores(t) == [k \in 1..(Cardinality(Commas(t)) + 1) |-> Core(Piece(t, k))]

\* The n-th of the pieces that have a core.
NthKept(cores, n) ==
  CHOOSE k \in DOMAIN cores :
    cores[k] # <<>> /\ Cardinality({j \in 1..k : cores[j] # <<>>}) = n

TagsOf(cores) ==
  [n \in 1..Min(5, Cardinality({k \in DOMAIN cores : cores[k] # <<>>})) |->
     [i \in 1..Len(cores[NthKept(cores, n)]) |-> LowerChar(cores[NthKept(cores, n)][i])]]

ExpectedTags(t) == CHOOSE tags \in {TagsOf(cores) : cores \in {Cores(t)}} : TRUE

TagsServed == req.op = "summary_tags" /\ resp.kind = "tags"

\* The response text the generation provider gave summary_tags.
TagResponse == calls[1].out.text

-----------------------------------------------------------------------------
\* C8: the tags of SuggestTags are the first 5 non-empty trimmed lowercased
\* pieces of the response, in the response's order, duplicates kept: at most 5,
\* none empty, none with whitespace at either end or an upper-case letter; the
\* spec's example response gives its five tags.
TagsParsed ==
  TagsServed =>
    /\ resp.body.tags = ExpectedTags(TagResponse)
    /\ Len(resp.body.tags) <= 5
    /\ \A n \in 1..Len(resp.body.tags) :
         LET tag == resp.body.tags[n] IN
         /\ tag # <<>>
         /\ tag[1] \notin Whitespace
         /\ tag[Len(tag)] \notin Whitespace
         /\ \A i \in 1..Len(tag) : tag[i] \notin Range(UpperChars)
    /\ TagResponse = ExampleResponse
         => resp.body.tags = << <<"c">>, <<"t">>, <<"a">>, <<"a">>, <<"f">> >>

\* Six pieces, one of the first five blank: five tags all the same, a duplicate among them.
TagCapSeen ==
  /\ TagsServed
  /\ Cardinality(Commas(TagResponse)) = 5
  /\ \E k \in 1..5 : Core(Piece(TagResponse, k)) = <<>>
  /\ Len(resp.body.tags) = 5
  /\ \E m, n \in 1..5 : m # n /\ resp.body.tags[m] = resp.body.tags[n]

-----------------------------------------------------------------------------
\* C9: a stage that fails ends the request there, in an error: a save whose
\* authentication, validation, Summarize, SuggestTags or embed fails writes
\* nothing and leaves the store as it was; an Ask whose authentication,
\* validation, embed or corpus fetch fails never calls the generation provider.
RaisedIn(svc) == \E i \in CallsTo(svc) : calls[i].out.kind = "raise"

SaveStageFailed ==
  /\ IsSave
  /\ \/ ~Authenticated
     \/ Blank(Get(req.data, "title", <<>>))
     \/ Blank(Get(req.data, "url", <<>>))
     \/ RaisedIn("generate")
     \/ RaisedIn("embed")

AskStageFailed ==
  /\ IsAsk
  /\ \/ ~Authenticated
     \/ Len(Get(req.data, "question", <<>>)) < 3
     \/ RaisedIn("embed")
     \/ RaisedIn("stream")

FailureAborts ==
  [][ /\ SaveStageFailed' => /\ resp'.kind = "error"
                             /\ CallsTo("set")' = {}
                             /\ store' = store
      /\ AskStageFailed' => /\ resp'.kind = "error"
                            /\ CallsTo("generate")' = {}
      /\ \A i \in 1..Len(calls') :
           calls'[i].out.kind = "raise" => i = Len(calls') /\ resp'.kind = "error" ]_vars

\* A save to a store that holds a document, whose SuggestTags call failed
\* after its Summarize call had succeeded.
TagFailureSeen ==
  /\ IsSave
  /\ store["u1"] # <<>>
  /\ Len(calls) = 2
  /\ calls[1].out.kind = "ok"
  /\ calls[2].svc = "generate"
  /\ calls[2].out.kind = "raise"
  /\ resp.kind = "error"

-----------------------------------------------------------------------------
\* C10: every match of an Ask and every item of a List is a document of the
\* caller's own collection, and a save leaves the collection of every other
\* user as it was, also when two users use the same document id.
OwnItems == {WithId(id, store[req.auth][id]) : id \in DOMAIN store[req.auth]}

Isolation ==
  [][ /\ Answered' => \A i \in 1..Len(Matches') : Matches'[i].bookmark \in OwnItems'
      /\ (IsList' /\ resp'.kind = "list")
           => \A i \in 1..Len(resp'.body) : resp'.body[i] \in OwnItems'
      /\ IsSave' => \A v \in Users \ {req'.auth} : store'[v] = store[v] ]_vars

\* Both users hold a document d1, not the same one, and u2 got matches.
SharedIdSeen ==
  /\ "d1" \in DOMAIN store["u1"]
  /\ "d1" \in DOMAIN store["u2"]
  /\ store["u1"]["d1"].embedding # store["u2"]["d1"].embedding
  /\ Answered
  /\ req.auth = "u2"
  /\ Len(Matches) = 1

====
